---- MODULE Spec2Model ----
(***************************************************************************)
(* Multi-agent research pipeline: the supervisor/worker control loop       *)
(* (workflows/graph_builder.py, agents/*.py, state/schemas.py) and the     *)
(* token-bucket rate limiter with its retrying caller                      *)
(* (utils/rate_limiter.py, agents/base_agent.py).                          *)
(*                                                                         *)
(* Conventions.  A Python dict is a function with a string domain; a       *)
(* partial update is a function on a subset of the state's keys.  Python's *)
(* None is the string None.  A text is "" when empty; every non-empty text *)
(* is truthy.  Scores are in hundredths (0.85 is 85), confidences too.      *)
(***************************************************************************)
EXTENDS Integers, Sequences, FiniteSets, TLC

VARIABLES
    node,              \* graph position: the node that runs next, or "END"
    state,             \* the AgentState dict threaded through the graph
    decision_history,  \* SupervisorAgent.decision_history (number of entries)
    steps,             \* history: number of worker node executions so far
    supervisor_steps   \* history: number of supervisor node executions

graphvars == <<node, state, decision_history, steps, supervisor_steps>>

VARIABLES
    rate_limiter,      \* per workflow and agent: BaseAgent.rate_limiter
    calling,           \* per workflow: the agent whose LLM call is in
                       \* flight, or "none"
    last_caller,       \* per workflow: the agent that made the last call
    granted            \* history: acquires granted, by any limiter, at the
                       \* current clock reading

agvars == <<rate_limiter, calling, last_caller, granted>>

VARIABLES
    message_buffer,    \* MemoryManager.message_buffer (a deque)
    total_messages,    \* MemoryManager.metadata["total_messages"]
    summarization_count, \* MemoryManager.metadata["summarization_count"]
    recent_query,      \* history: arguments of the last get_recent_messages
                       \* call (a sequence of length 0 or 1)
    recent             \* history: what that call returned

memvars == <<message_buffer, total_messages, summarization_count,
             recent_query, recent>>

wfvars == <<graphvars, agvars, memvars>>

VARIABLES
    now,               \* the wall clock, in ticks
    request_bucket,    \* RateLimiter.request_bucket (a TokenBucket)
    token_bucket,      \* RateLimiter.token_bucket (a TokenBucket)
    active_requests,   \* RateLimiter.active_requests
    request_history,   \* RateLimiter.request_history (number of entries)
    tpc,               \* per thread: position in acquire / in its caller
    t_start,           \* per thread: start_time of the wait loop it is in
    t_timeout,         \* per thread: the timeout argument of its acquire
    request_acquired,  \* per thread: local request_acquired of acquire
    token_acquired     \* per thread: local token_acquired of acquire

rlvars == <<now, request_bucket, token_bucket, active_requests,
            request_history, tpc, t_start, t_timeout, request_acquired,
            token_acquired>>

VARIABLES
    attempt,           \* per thread: loop variable of invoke_llm
    grants,            \* history, per thread: acquires that returned True
                       \* in its current invoke_llm call
    releases,          \* history, per thread: release() calls it made in
                       \* its current invoke_llm call
    total_requests,    \* BaseAgent.total_requests
    agent_errors       \* BaseAgent.errors (number of entries)

ivars == <<attempt, grants, releases, total_requests, agent_errors>>

VARIABLES
    lock_owner         \* per lock (RateLimiter.concurrent_lock and each
                       \* TokenBucket.lock): the thread holding it, or 0

lkvars == <<lock_owner>>

vars == <<wfvars, rlvars, ivars, lkvars>>

-----------------------------------------------------------------------------
(* Bounds and program constants                                            *)

\* settings.max_iterations (configurable, 1..50); kept small here
max_iterations == 5

\* the revision cap hard-coded in SupervisorAgent.execute / _fallback_decision
MaxRevisions == 3

\* settings.timeout_seconds (configurable, at least 10, default 300); kept
\* small here
timeout_seconds == 30

\* MemoryManager(max_messages) (default 50); kept small here
max_messages == 3

\* number of add_message calls explored: enough to overflow the deque
MaxAdds == max_messages + 1

\* the buffer length below which _summarize_old_messages does nothing
SummarizeMinLen == 10

\* cap on worker executions explored (never reached: steps <= max_iterations)
StepCap == max_iterations + 2

None == "<None>"

\* clock resolution: ticks per minute, and the last tick explored
TicksPerMinute == 2
MaxTime == TicksPerMinute + 1

\* RateLimitConfig, scaled down: calls per minute, cost units per minute,
\* the cost of one call (estimated_tokens), and the concurrency limit
requests_per_minute == 1
estimated_tokens == 1
tokens_per_minute == requests_per_minute * estimated_tokens
max_concurrent == 1

\* threads sharing one RateLimiter: one more than there are slots
NThreads == max_concurrent + 1
Threads == 1..NThreads

\* the default timeout of RateLimiter.acquire, in seconds
DefaultTimeout == 30

\* the default max_retries of BaseAgent.invoke_llm
max_retries == 3

\* request_history is a deque(maxlen=...); scaled down
HistoryMaxLen == 1

Min(a, b) == IF a <= b THEN a ELSE b
Max(a, b) == IF a >= b THEN a ELSE b

-----------------------------------------------------------------------------
(* Shared state: schemas.py                                                *)

\* the reducer annotations with messages left as a plain field
AppendKeys_without_messages == {"errors", "warnings"}

\* the fields declared Annotated[..., add] in AgentState
AppendKeys == {"messages", "errors", "warnings"}

\* create_initial_state(task)
create_initial_state ==
    [ task                   |-> "task",
      user_context           |-> <<>>,
      current_agent          |-> "supervisor",
      next_agent             |-> "supervisor",
      iteration_count        |-> 0,
      workflow_status        |-> "running",
      messages               |-> <<>>,
      research_query         |-> "",
      research_findings      |-> "",
      research_sources       |-> <<>>,
      research_quality_score |-> 0,
      content_type           |-> "blog post",
      content_draft          |-> "",
      content_version        |-> 0,
      review_score           |-> 0,
      review_feedback        |-> "",
      review_decision        |-> "request_revision",
      revision_count         |-> 0,
      final_output           |-> "",
      metadata               |-> [k \in {} |-> 0],
      errors                 |-> <<>>,
      warnings               |-> <<>> ]

\* AgentMessage, reduced to the fields the control flow can depend on: the
\* content (a string, or None) and the message type
AgentMessage(sender, content, message_type) ==
    [content |-> content, message_type |-> message_type]

\* add_message also storing the content as the task
add_message_writing_task(s, sender, content, message_type) ==
    "messages" :> <<AgentMessage(sender, content, message_type)>>
    @@ "task" :> content

\* add_message(state, sender, recipient, content, message_type)
add_message(s, sender, content, message_type) ==
    "messages" :> <<AgentMessage(sender, content, message_type)>>

\* increment_iteration returning the count unchanged
increment_iteration_stuck(s) ==
    "iteration_count" :> s.iteration_count

\* increment_iteration(state)
increment_iteration(s) ==
    "iteration_count" :> (s.iteration_count + 1)

\* dict.update: the right operand wins on common keys
DictUpdate(d, u) == u @@ d

\* the StateGraph reducer: Annotated[..., add] fields are concatenated,
\* every other field of the update overwrites
Merge(s, u) ==
    [k \in DOMAIN s |->
        IF k \in DOMAIN u
        THEN IF k \in AppendKeys THEN s[k] \o u[k] ELSE u[k]
        ELSE s[k]]

\* len(text.split()) for the texts of the model
WordCount(text) == IF text = "" THEN 0 ELSE 2

-----------------------------------------------------------------------------
(* Router (supervisor LLM) responses                                       *)

\* a key the reply's JSON object does not have
Missing == "<missing>"

\* dict.get(key, default), v being the value under the key or Missing
DictGet(v, default) == IF v = Missing THEN default ELSE v

\* what the reply's JSON object can hold under "next_agent": a stage name,
\* some other string, null, or nothing
RouterAnswers ==
    {"researcher", "content_creator", "reviewer", "finish",
     "human_review", "unknown", None, Missing}

\* "raise": invoke_llm raised after its retries; "badjson": the text is not
\* JSON; "malformed": JSON that is no decision object (.get or float()
\* raises); "ok": a JSON object, whose "instructions" is a string or null
RouterResponses ==
    [kind : {"raise", "badjson", "malformed"},
     next_agent : {"finish"}, instructions : {"text"}]
    \cup
    [kind : {"ok"}, next_agent : RouterAnswers, instructions : {"text"}]
    \cup
    [kind : {"ok"}, next_agent : {"researcher", "content_creator", "reviewer"},
     instructions : {None}]

SupervisorDecision(next_agent, reasoning, instructions, confidence) ==
    [next_agent |-> next_agent, reasoning |-> reasoning,
     instructions |-> instructions, confidence |-> confidence]

-----------------------------------------------------------------------------
(* SupervisorAgent: agents/supervisor.py                                   *)

\* the body of SupervisorAgent._fallback_decision(state), which reads
\* self.settings.max_iterations: limit is the value it finds there
_fallback_decision_settings(limit, s) ==
    IF s.iteration_count >= limit
    THEN SupervisorDecision("finish", "Maximum iterations reached",
                            "text", 100)
    ELSE IF s.revision_count >= MaxRevisions
    THEN SupervisorDecision("finish", "Maximum revisions reached", "text", 80)
    ELSE IF s.research_findings = ""
    THEN SupervisorDecision("researcher", "No research completed yet",
                            "text", 90)
    ELSE IF s.content_draft = ""
    THEN SupervisorDecision("content_creator",
                            "Research complete, need content", "text", 90)
    ELSE IF s.review_feedback = ""
    THEN SupervisorDecision("reviewer", "Content created, needs review",
                            "text", 90)
    ELSE IF s.review_decision = "request_revision" /\ s.revision_count < MaxRevisions
    THEN SupervisorDecision("content_creator",
                            "Revision requested by reviewer", "text", 80)
    ELSE SupervisorDecision("finish",
                            "Workflow complete or max revisions reached",
                            "text", 70)

\* the fallback without its two leading limit checks
_fallback_decision_unguarded(s) ==
    IF s.research_findings = ""
    THEN SupervisorDecision("researcher", "No research completed yet",
                            "text", 90)
    ELSE IF s.content_draft = ""
    THEN SupervisorDecision("content_creator",
                            "Research complete, need content", "text", 90)
    ELSE IF s.review_feedback = ""
    THEN SupervisorDecision("reviewer", "Content created, needs review",
                            "text", 90)
    ELSE IF s.review_decision = "request_revision" /\ s.revision_count < MaxRevisions
    THEN SupervisorDecision("content_creator",
                            "Revision requested by reviewer", "text", 80)
    ELSE SupervisorDecision("finish",
                            "Workflow complete or max revisions reached",
                            "text", 70)

\* SupervisorAgent._fallback_decision(state), under the configured
\* settings.max_iterations
_fallback_decision(s) == _fallback_decision_settings(max_iterations, s)

\* SupervisorAgent._make_routing_decision(state, context), r the LLM outcome
_make_routing_decision(s, r) ==
    IF r.kind = "ok"
    THEN SupervisorDecision(DictGet(r.next_agent, "finish"), "reasoning",
                            DictGet(r.instructions, "text"), 50)
    ELSE _fallback_decision(s)

\* the force-finish condition without its approval clause
should_finish_no_approval(s) ==
    \/ s.iteration_count >= max_iterations
    \/ s.revision_count >= MaxRevisions

\* the force-finish condition without its revision clause
should_finish_no_revision_cap(s) ==
    \/ s.iteration_count >= max_iterations
    \/ (s.review_decision = "approve" /\ s.final_output # "")

\* the force-finish condition of SupervisorAgent.execute
should_finish(s) ==
    \/ s.iteration_count >= max_iterations
    \/ s.revision_count >= MaxRevisions
    \/ (s.review_decision = "approve" /\ s.final_output # "")

\* SupervisorAgent._build_context(state) raises: msg.content[:100] on one of
\* the last three messages, when that content is not a string
_build_context_raises(s) ==
    \E i \in 1..Len(s.messages) :
        /\ i > Len(s.messages) - 3
        /\ s.messages[i].content = None

\* whether SupervisorAgent.execute reaches _make_routing_decision
RouterConsulted(s) ==
    ~should_finish(s) /\ ~_build_context_raises(s)

\* SupervisorAgent.execute(state), r the LLM outcome: the returned update
SupervisorExecute(s, r) ==
    IF should_finish(s)
    THEN LET updates == ("current_agent" :> "supervisor"
                         @@ "next_agent" :> "finish"
                         @@ "workflow_status" :> "completed")
         IN  IF s.content_draft # "" /\ s.final_output = ""
             THEN DictUpdate(updates,
                     "final_output" :> s.content_draft
                     @@ "metadata" :>
                          ("word_count" :> WordCount(s.content_draft)
                           @@ "quality_score" :> s.review_score
                           @@ "sources_used" :> Len(s.research_sources)
                           @@ "revisions" :> s.revision_count
                           @@ "status" :> "completed_with_max_iterations"))
             ELSE updates
    ELSE IF _build_context_raises(s)
    THEN ("current_agent" :> "supervisor"
          @@ "next_agent" :> "finish"
          @@ "errors" :> <<"Supervisor error">>)
    ELSE LET decision == _make_routing_decision(s, r)
             updates == ("current_agent" :> "supervisor"
                         @@ "next_agent" :> decision.next_agent)
         IN  DictUpdate(updates,
                 add_message(s, "supervisor", decision.instructions, "task"))

-----------------------------------------------------------------------------
(* WorkflowBuilder: workflows/graph_builder.py                             *)

\* the iteration-limit check with > in place of >=
IterationLimitReached_off_by_one(s) == s.iteration_count > max_iterations

\* the iteration-limit check at the top of WorkflowBuilder._supervisor_node
IterationLimitReached(s) == s.iteration_count >= max_iterations

\* WorkflowBuilder._supervisor_node(state): the returned update
_supervisor_node(s, r) ==
    IF IterationLimitReached(s)
    THEN ("next_agent" :> "finish"
          @@ "workflow_status" :> "completed"
          @@ "warnings" :> <<"Max iterations reached">>)
    ELSE DictUpdate(SupervisorExecute(s, r), increment_iteration(s))

\* the routing with 'researcher' as the default of route_map.get
_route_from_supervisor_default_researcher(s) ==
    IF s.next_agent \in {"content_creator", "reviewer"} THEN s.next_agent
    ELSE IF s.next_agent \in {"human_review", "finish"} THEN "finish"
    ELSE "researcher"

\* a value that cannot be a dict key (what a JSON array or object parses
\* to): dict.get raises "TypeError: unhashable type" on it
Unhashable == "<unhashable>"

\* WorkflowBuilder._route_from_supervisor(state): the edge returned, or
\* "TypeError" when route_map.get raises
_route_from_supervisor(s) ==
    LET next_agent == IF "next_agent" \in DOMAIN s THEN s.next_agent
                      ELSE "finish"
        route_map == ("researcher" :> "researcher"
                      @@ "content_creator" :> "content_creator"
                      @@ "reviewer" :> "reviewer"
                      @@ "human_review" :> "finish"
                      @@ "finish" :> "finish")
    IN  IF next_agent = Unhashable THEN "TypeError"
        ELSE IF next_agent \in DOMAIN route_map THEN route_map[next_agent]
        ELSE "finish"

\* the conditional-edge map naming nodes that were never added
EdgeTarget_dangling(route) ==
    IF route = "finish" THEN "END" ELSE "no such node"

\* the conditional-edge map of WorkflowBuilder.build: "finish" leads to END
EdgeTarget(route) == IF route = "finish" THEN "END" ELSE route

-----------------------------------------------------------------------------
(* Stage workers: researcher.py, content_creator.py, reviewer.py           *)

\* outcomes of ResearcherAgent's work: the synthesis text of the LLM (which
\* may be empty), the LLM failing after its retries (caught inside
\* _synthesize_research), or an exception reaching execute's handler
ResearchOutcomes ==
    [kind : {"ok"}, text : {"", "findings"}]
    \cup [kind : {"synthesis_failed", "raise"}, text : {""}]

\* ResearcherAgent.execute(state): the returned update
ResearcherExecute(s, o) ==
    IF o.kind = "raise"
    THEN ("current_agent" :> "researcher"
          @@ "research_findings" :> "Research failed"
          @@ "research_sources" :> <<>>
          @@ "research_quality_score" :> 0
          @@ "errors" :> <<"Research error">>)
    ELSE LET query == IF s.research_query # "" THEN s.research_query
                      ELSE s.task
             research_output ==
                 IF o.kind = "ok"
                 THEN [findings |-> o.text, sources |-> <<"url">>,
                       quality_score |-> 50]
                 ELSE [findings |-> "Synthesis failed", sources |-> <<>>,
                       quality_score |-> 0]
             updates == ("current_agent" :> "researcher"
                         @@ "research_query" :> query
                         @@ "research_findings" :> research_output.findings
                         @@ "research_sources" :> research_output.sources
                         @@ "research_quality_score" :>
                                research_output.quality_score)
         IN  DictUpdate(updates,
                 add_message(s, "researcher", "text", "result"))

\* outcomes of ContentCreatorAgent._generate_content: the LLM's text (which
\* may be empty) or the LLM failing after its retries (re-raised)
ContentOutcomes ==
    [kind : {"ok"}, text : {"", "draft text"}]
    \cup [kind : {"raise"}, text : {""}]

\* ContentCreatorAgent.execute(state): the returned update
ContentCreatorExecute(s, o) ==
    IF o.kind = "raise"
    THEN ("current_agent" :> "content_creator"
          @@ "content_draft" :> "Content creation failed"
          @@ "errors" :> <<"Content creation error">>)
    ELSE LET updates == ("current_agent" :> "content_creator"
                         @@ "content_draft" :> o.text
                         @@ "content_version" :> (s.content_version + 1)
                         @@ "content_type" :> s.content_type)
         IN  DictUpdate(updates,
                 add_message(s, "content_creator", "text", "result"))

\* issue texts: one ordinary, one containing a critical keyword
CriticalIssues == {"plagiarism detected"}

IssueLists ==
    { <<>>,
      <<"unclear wording", "unclear wording", "unclear wording">>,
      <<"unclear wording", "unclear wording", "unclear wording",
        "unclear wording">> }

\* the "decision" of the LLM's review object
LLMDecisions == {"approve", "request_revision", "reject"}

\* outcomes of ReviewerAgent._perform_review: the combined score and issue
\* list; "llm_failed" is the LLM failing after its retries (replaced by
\* _fallback_review, whose 0.6 scores combine to a score in [0.42, 0.72]);
\* "raise" is an exception reaching execute's handler (a review object whose
\* scores are not numbers)
ReviewOutcomes ==
    [kind : {"ok"}, score : {50, 80, 90}, issues : IssueLists,
     llm_decision : LLMDecisions]
    \cup [kind : {"ok"}, score : {30}, issues : {<<>>},
          llm_decision : LLMDecisions]
    \cup [kind : {"ok"}, score : {90}, issues : {<<"plagiarism detected">>},
          llm_decision : LLMDecisions]
    \cup [kind : {"llm_failed"}, score : {50},
          issues : {<<"Unable to perform detailed review">>},
          llm_decision : {"request_revision"}]
    \cup [kind : {"raise"}, score : {0}, issues : {<<>>},
          llm_decision : {"request_revision"}]

\* the decision taking the LLM's word for an approval
_make_decision_trusting_llm(score, issues, llm_decision) ==
    IF \E i \in 1..Len(issues) : issues[i] \in CriticalIssues THEN "reject"
    ELSE IF llm_decision = "approve" THEN "approve"
    ELSE IF score >= 85 /\ Len(issues) <= 3 THEN "approve"
    ELSE IF score >= 75 /\ Len(issues) <= 2 THEN "approve"
    ELSE IF score < 40 THEN "reject"
    ELSE "request_revision"

\* ReviewerAgent._make_decision(score, issues, llm_decision)
_make_decision(score, issues, llm_decision) ==
    LET has_critical ==
            \E i \in 1..Len(issues) : issues[i] \in CriticalIssues
    IN  IF has_critical THEN "reject"
        ELSE IF score >= 85 /\ Len(issues) <= 3 THEN "approve"
        ELSE IF score >= 75 /\ Len(issues) <= 2 THEN "approve"
        ELSE IF score < 40 THEN "reject"
        ELSE "request_revision"

\* ContentValidator.validate(content, research) raises: _validate_citations
\* divides by word_count / 100, which is 0 for a draft without words
validate_raises(content) == WordCount(content) = 0

\* ReviewerAgent.execute(state): the returned update
ReviewerExecute(s, o) ==
    IF o.kind = "raise" \/ validate_raises(s.content_draft)
    THEN ("current_agent" :> "reviewer"
          @@ "review_score" :> 0
          @@ "review_feedback" :> "Review failed"
          @@ "review_decision" :> "reject"
          @@ "errors" :> <<"Review error">>)
    ELSE LET content == s.content_draft
             decision == _make_decision(o.score, o.issues, o.llm_decision)
             updates == ("current_agent" :> "reviewer"
                         @@ "review_score" :> o.score
                         @@ "review_feedback" :> "feedback"
                         @@ "review_decision" :> decision
                         @@ "revision_count" :>
                              (s.revision_count
                               + (IF decision = "request_revision"
                                  THEN 1 ELSE 0)))
             approved ==
                 IF decision = "approve"
                 THEN DictUpdate(updates,
                         "final_output" :> content
                         @@ "metadata" :>
                              ("word_count" :> WordCount(content)
                               @@ "quality_score" :> o.score
                               @@ "sources_used" :> Len(s.research_sources)
                               @@ "revisions" :> s.revision_count))
                 ELSE updates
         IN  DictUpdate(approved,
                 add_message(s, "reviewer", "text", "result"))

-----------------------------------------------------------------------------
(* TokenBucket: utils/rate_limiter.py                                      *)
(* tokens are kept in units of 1/TicksPerMinute token, which makes the     *)
(* refill of one tick (refill_rate * 60 / TicksPerMinute) a whole number;  *)
(* refill_rate is kept per minute.                                         *)

\* TokenBucket.__init__(capacity, refill_rate), created at time 0
TokenBucket(capacity, rate_per_minute) ==
    [capacity |-> capacity, refill_rate |-> rate_per_minute,
     tokens |-> capacity * TicksPerMinute, last_refill |-> 0]

\* TokenBucket._refill without the cap at capacity
_refill_uncapped(b, t) ==
    [b EXCEPT !.tokens = b.tokens + (t - b.last_refill) * b.refill_rate,
              !.last_refill = t]

\* TokenBucket._refill(), at clock reading t
_refill(b, t) ==
    LET elapsed == t - b.last_refill
        new_tokens == elapsed * b.refill_rate
    IN  [b EXCEPT !.tokens = Min(b.capacity * TicksPerMinute,
                                 b.tokens + new_tokens),
                  !.last_refill = t]

\* the test of TokenBucket.consume, after the refill
HasTokens(b, tokens) == b.tokens >= tokens * TicksPerMinute

\* TokenBucket.consume(tokens), at clock reading t: the bucket afterwards
consume(b, tokens, t) ==
    LET r == _refill(b, t)
    IN  IF HasTokens(r, tokens)
        THEN [r EXCEPT !.tokens = r.tokens - tokens * TicksPerMinute]
        ELSE r

\* the value TokenBucket.consume(tokens) returns
consume_result(b, tokens, t) == HasTokens(_refill(b, t), tokens)

\* TokenBucket.available_tokens(): int(self.tokens) after the refill
available_tokens(b, t) == _refill(b, t).tokens \div TicksPerMinute

\* "timeout and (time.time() - start_time) > timeout", timeout in seconds
TimedOut(timeout, start_time) ==
    /\ timeout # 0
    /\ (now - start_time) * 60 > timeout * TicksPerMinute

-----------------------------------------------------------------------------
(* The compiled graph: one action per node                                 *)

\* WorkflowBuilder() and create_initial_state
WorkflowInit ==
    /\ node = "supervisor"
    /\ state = create_initial_state
    /\ decision_history = 0
    /\ steps = 0
    /\ supervisor_steps = 0

\* RateLimiter(config), no thread inside it
LimiterInit ==
    /\ now = 0
    /\ request_bucket = TokenBucket(requests_per_minute, requests_per_minute)
    /\ token_bucket = TokenBucket(tokens_per_minute, tokens_per_minute)
    /\ active_requests = 0
    /\ request_history = 0
    /\ tpc = [t \in Threads |-> "idle"]
    /\ t_start = [t \in Threads |-> 0]
    /\ t_timeout = [t \in Threads |-> 0]
    /\ request_acquired = [t \in Threads |-> FALSE]
    /\ token_acquired = [t \in Threads |-> FALSE]

\* the locks of a RateLimiter: concurrent_lock and the lock of each bucket
LockNames == {"concurrent_lock", "request_bucket.lock", "token_bucket.lock"}

\* threading.Lock(): every lock is created unlocked
LockInit == lock_owner = [l \in LockNames |-> 0]

\* BaseAgent.__init__: the usage counters
AgentInit ==
    /\ attempt = [t \in Threads |-> 0]
    /\ grants = [t \in Threads |-> 0]
    /\ releases = [t \in Threads |-> 0]
    /\ total_requests = 0
    /\ agent_errors = 0

\* workflows running side by side, each built by its own WorkflowBuilder
Workflows == 1..NThreads

\* the agents a WorkflowBuilder creates
AgentNames == {"supervisor", "researcher", "content_creator", "reviewer"}

\* RateLimiter.__init__(config)
RateLimiter ==
    [request_bucket |-> TokenBucket(requests_per_minute, requests_per_minute),
     token_bucket |-> TokenBucket(tokens_per_minute, tokens_per_minute),
     active_requests |-> 0]

\* WorkflowBuilder.__init__: four agents, and BaseAgent.__init__ giving
\* each agent a RateLimiter of its own
BuilderInit ==
    /\ rate_limiter = [w \in Workflows |-> [a \in AgentNames |-> RateLimiter]]
    /\ calling = [w \in Workflows |-> "none"]
    /\ last_caller = [w \in Workflows |-> "none"]
    /\ granted = 0

\* MemoryManager.__init__; no get_recent_messages call made yet
MemoryInit ==
    /\ message_buffer = <<>>
    /\ total_messages = 0
    /\ summarization_count = 0
    /\ recent_query = <<>>
    /\ recent = <<>>

Init ==
    /\ WorkflowInit /\ LimiterInit /\ AgentInit /\ BuilderInit
    /\ MemoryInit /\ LockInit

\* the supervisor node, followed by the conditional edge out of it
SupervisorStep ==
    /\ node = "supervisor"
    /\ \E r \in RouterResponses :
          LET merged == Merge(state, _supervisor_node(state, r))
          IN  /\ state' = merged
              /\ node' = EdgeTarget(_route_from_supervisor(merged))
    /\ decision_history' =
          IF ~IterationLimitReached(state) /\ RouterConsulted(state)
          THEN decision_history + 1 ELSE decision_history
    /\ supervisor_steps' = supervisor_steps + 1
    /\ UNCHANGED <<steps, agvars, memvars>>
    /\ UNCHANGED <<rlvars, ivars, lkvars>>

\* the researcher node and its edge back to the supervisor
ResearcherStep ==
    /\ node = "researcher"
    /\ steps < StepCap
    /\ \E o \in ResearchOutcomes :
          state' = Merge(state, ResearcherExecute(state, o))
    /\ node' = "supervisor"
    /\ steps' = steps + 1
    /\ UNCHANGED <<decision_history, supervisor_steps, agvars, memvars>>
    /\ UNCHANGED <<rlvars, ivars, lkvars>>

\* the content creator node and its edge back to the supervisor
ContentCreatorStep ==
    /\ node = "content_creator"
    /\ steps < StepCap
    /\ \E o \in ContentOutcomes :
          state' = Merge(state, ContentCreatorExecute(state, o))
    /\ node' = "supervisor"
    /\ steps' = steps + 1
    /\ UNCHANGED <<decision_history, supervisor_steps, agvars, memvars>>
    /\ UNCHANGED <<rlvars, ivars, lkvars>>

\* the reviewer node and its edge back to the supervisor
ReviewerStep ==
    /\ node = "reviewer"
    /\ steps < StepCap
    /\ \E o \in ReviewOutcomes :
          state' = Merge(state, ReviewerExecute(state, o))
    /\ node' = "supervisor"
    /\ steps' = steps + 1
    /\ UNCHANGED <<decision_history, supervisor_steps, agvars, memvars>>
    /\ UNCHANGED <<rlvars, ivars, lkvars>>

Next ==
    \/ SupervisorStep
    \/ ResearcherStep
    \/ ContentCreatorStep
    \/ ReviewerStep

Spec == Init /\ [][Next]_vars

\* the graph is run by one synchronous thread: an enabled node runs
FairSpec == Spec /\ WF_vars(Next)

-----------------------------------------------------------------------------
(* The compiled graph running while the wall clock advances                *)

\* the wall clock advances between or during the nodes of the graph
WorkflowTick ==
    /\ now < MaxTime
    /\ now' = now + 1
    /\ UNCHANGED <<request_bucket, token_bucket, active_requests,
                   request_history, tpc, t_start, t_timeout,
                   request_acquired, token_acquired>>
    /\ UNCHANGED <<wfvars, ivars, lkvars>>

NextTimed ==
    \/ WorkflowTick
    \/ SupervisorStep
    \/ ResearcherStep
    \/ ContentCreatorStep
    \/ ReviewerStep

SpecTimed == Init /\ [][NextTimed]_vars

-----------------------------------------------------------------------------
(* RateLimiter: utils/rate_limiter.py.  One action per lock-delimited step *)
(* of acquire(), per thread; a sleeping thread is one that takes no step.  *)

\* timeout arguments passed to acquire (seconds; 0 is "no timeout")
AcquireTimeouts == {DefaultTimeout}

\* the slot test of acquire with <= in place of <
SlotFree_off_by_one(n) == n <= max_concurrent

\* "self.active_requests < self.max_concurrent"
SlotFree(n) == n < max_concurrent

\* the failure branch of acquire leaving the counter as it is
RollbackSlot_missing(n) == n

\* "self.active_requests -= 1" in the failure branch of acquire
RollbackSlot(n) == n - 1

\* RateLimiter.release(): the new value of active_requests
release(n) == Max(0, n - 1)

\* the optional actual_tokens argument of release: not passed (the empty
\* sequence), or a number
ActualTokens == {<<>>, <<0>>, <<estimated_tokens>>}

\* release handing the unused part of the estimate back to the bucket
release_adjust_refund(b, actual_tokens) ==
    IF actual_tokens = <<>> THEN b
    ELSE [b EXCEPT !.tokens =
             Min(b.capacity * TicksPerMinute,
                 b.tokens
                 + (estimated_tokens - actual_tokens[1]) * TicksPerMinute)]

\* RateLimiter.release(actual_tokens): the token bucket afterwards;
\* "if actual_tokens: pass"
release_adjust(b, actual_tokens) == b

\* acquire has returned False to thread t: from the slot loop ("return
\* False" on timeout) or after the bucket waits (rollback, "return False")
ReturnedFalse(t) == tpc[t] \in {"ret_false_slot", "ret_false_bucket"}

\* acquire has returned True to thread t, which has not yet gone on
ReturnedTrue(t) == tpc[t] = "ret_true"

\* thread t is inside acquire
InAcquire(t) ==
    tpc[t] \in {"slot", "slot_sleep", "req_consume", "req_check",
                "req_sleep", "tok_consume", "tok_check", "tok_sleep",
                "decide"}

\* thread t is inside acquire past the slot loop
PastSlotLoop(t) ==
    tpc[t] \in {"req_consume", "req_check", "req_sleep", "tok_consume",
                "tok_check", "tok_sleep", "decide"}

\* "with lock:" is entered by thread t: the lock is free (or t is the
\* thread that holds it)
with_enter(l, t) == lock_owner[l] \in {0, t}

\* the end of a "with lock:" block releases the lock
with_exit(l) == [lock_owner EXCEPT ![l] = 0]

\* the holder of a lock while t sleeps with it held
lock_while_sleeping_in_block(t) == t

\* the holder of the lock of the "with" block that precedes a time.sleep
\* of thread t, while t sleeps: the block has been left, the sleep is the
\* statement after it
lock_while_sleeping(t) == 0

\* thread t leaves the "with l:" block of a wait loop and sleeps
sleep_after_with(l, t) ==
    [lock_owner EXCEPT ![l] = lock_while_sleeping(t)]

\* the locals of acquire are dropped when it returns
DropLocals(t) ==
    /\ t_start' = [t_start EXCEPT ![t] = 0]
    /\ t_timeout' = [t_timeout EXCEPT ![t] = 0]
    /\ request_acquired' = [request_acquired EXCEPT ![t] = FALSE]
    /\ token_acquired' = [token_acquired EXCEPT ![t] = FALSE]

\* acquire(estimated_tokens, timeout) is entered: start_time = time.time()
AcquireEnter(t, timeout) ==
    /\ tpc' = [tpc EXCEPT ![t] = "slot"]
    /\ t_start' = [t_start EXCEPT ![t] = now]
    /\ t_timeout' = [t_timeout EXCEPT ![t] = timeout]
    /\ UNCHANGED <<now, request_bucket, token_bucket, active_requests,
                   request_history, request_acquired, token_acquired>>
    /\ UNCHANGED <<wfvars, ivars, lkvars>>

\* one round of the slot loop that does not end in sleep: the slot is
\* claimed (and wait_for_tokens on the request bucket is entered), or the
\* wait has timed out and acquire returns False
AcquireSlot(t) ==
    /\ tpc[t] \in {"slot", "slot_sleep"}
    /\ with_enter("concurrent_lock", t)
    /\ lock_owner' = with_exit("concurrent_lock")
    /\ IF SlotFree(active_requests)
       THEN /\ active_requests' = active_requests + 1
            /\ tpc' = [tpc EXCEPT ![t] = "req_consume"]
            /\ t_start' = [t_start EXCEPT ![t] = now]
            /\ UNCHANGED <<t_timeout, request_acquired, token_acquired>>
       ELSE /\ TimedOut(t_timeout[t], t_start[t])
            /\ tpc' = [tpc EXCEPT ![t] = "ret_false_slot"]
            /\ DropLocals(t)
            /\ UNCHANGED active_requests
    /\ UNCHANGED <<now, request_bucket, token_bucket, request_history>>
    /\ UNCHANGED <<wfvars, ivars>>

\* one round of the slot loop that ends in sleep: no slot is free and the
\* wait has not timed out; "time.sleep(0.1)"
AcquireSlotSleep(t) ==
    /\ tpc[t] = "slot"
    /\ with_enter("concurrent_lock", t)
    /\ ~SlotFree(active_requests)
    /\ ~TimedOut(t_timeout[t], t_start[t])
    /\ lock_owner' = sleep_after_with("concurrent_lock", t)
    /\ tpc' = [tpc EXCEPT ![t] = "slot_sleep"]
    /\ UNCHANGED <<now, request_bucket, token_bucket, active_requests,
                   request_history, t_start, t_timeout, request_acquired,
                   token_acquired>>
    /\ UNCHANGED <<wfvars, ivars>>

\* wait_for_tokens(1, timeout) on the request bucket: self.consume(tokens)
RequestConsume(t) ==
    /\ tpc[t] \in {"req_consume", "req_sleep"}
    /\ with_enter("request_bucket.lock", t)
    /\ lock_owner' = with_exit("request_bucket.lock")
    /\ request_bucket' = consume(request_bucket, 1, now)
    /\ IF consume_result(request_bucket, 1, now)
       THEN /\ request_acquired' = [request_acquired EXCEPT ![t] = TRUE]
            /\ tpc' = [tpc EXCEPT ![t] = "tok_consume"]
            /\ t_start' = [t_start EXCEPT ![t] = now]
       ELSE /\ tpc' = [tpc EXCEPT ![t] = "req_check"]
            /\ UNCHANGED <<request_acquired, t_start>>
    /\ UNCHANGED <<now, token_bucket, active_requests, request_history,
                   t_timeout, token_acquired>>
    /\ UNCHANGED <<wfvars, ivars>>

\* wait_for_tokens on the request bucket after a failed consume: the
\* timeout test, else the refill under the lock and the sleep
RequestCheck(t) ==
    /\ tpc[t] = "req_check"
    /\ IF TimedOut(t_timeout[t], t_start[t])
       THEN /\ request_acquired' = [request_acquired EXCEPT ![t] = FALSE]
            /\ tpc' = [tpc EXCEPT ![t] = "tok_consume"]
            /\ t_start' = [t_start EXCEPT ![t] = now]
            /\ UNCHANGED <<request_bucket, lock_owner>>
       ELSE /\ with_enter("request_bucket.lock", t)
            /\ request_bucket' = _refill(request_bucket, now)
            /\ lock_owner' = sleep_after_with("request_bucket.lock", t)
            /\ tpc' = [tpc EXCEPT ![t] = "req_sleep"]
            /\ UNCHANGED <<request_acquired, t_start>>
    /\ UNCHANGED <<now, token_bucket, active_requests, request_history,
                   t_timeout, token_acquired>>
    /\ UNCHANGED <<wfvars, ivars>>

\* wait_for_tokens(estimated_tokens, timeout) on the token bucket:
\* self.consume(tokens)
TokenConsume(t) ==
    /\ tpc[t] \in {"tok_consume", "tok_sleep"}
    /\ with_enter("token_bucket.lock", t)
    /\ lock_owner' = with_exit("token_bucket.lock")
    /\ token_bucket' = consume(token_bucket, estimated_tokens, now)
    /\ IF consume_result(token_bucket, estimated_tokens, now)
       THEN /\ token_acquired' = [token_acquired EXCEPT ![t] = TRUE]
            /\ tpc' = [tpc EXCEPT ![t] = "decide"]
       ELSE /\ tpc' = [tpc EXCEPT ![t] = "tok_check"]
            /\ UNCHANGED token_acquired
    /\ UNCHANGED <<now, request_bucket, active_requests, request_history,
                   t_start, t_timeout, request_acquired>>
    /\ UNCHANGED <<wfvars, ivars>>

\* wait_for_tokens on the token bucket after a failed consume
TokenCheck(t) ==
    /\ tpc[t] = "tok_check"
    /\ IF TimedOut(t_timeout[t], t_start[t])
       THEN /\ token_acquired' = [token_acquired EXCEPT ![t] = FALSE]
            /\ tpc' = [tpc EXCEPT ![t] = "decide"]
            /\ UNCHANGED <<token_bucket, lock_owner>>
       ELSE /\ with_enter("token_bucket.lock", t)
            /\ token_bucket' = _refill(token_bucket, now)
            /\ lock_owner' = sleep_after_with("token_bucket.lock", t)
            /\ tpc' = [tpc EXCEPT ![t] = "tok_sleep"]
            /\ UNCHANGED token_acquired
    /\ UNCHANGED <<now, request_bucket, active_requests, request_history,
                   t_start, t_timeout, request_acquired>>
    /\ UNCHANGED <<wfvars, ivars>>

\* the end of acquire: roll the slot back and return False, or record the
\* request and return True
AcquireDecide(t) ==
    /\ tpc[t] = "decide"
    /\ IF ~(request_acquired[t] /\ token_acquired[t])
       THEN /\ with_enter("concurrent_lock", t)
            /\ active_requests' = RollbackSlot(active_requests)
            /\ tpc' = [tpc EXCEPT ![t] = "ret_false_bucket"]
            /\ UNCHANGED request_history
       ELSE /\ request_history' = Min(request_history + 1, HistoryMaxLen)
            /\ tpc' = [tpc EXCEPT ![t] = "ret_true"]
            /\ UNCHANGED active_requests
    /\ DropLocals(t)
    /\ UNCHANGED <<now, request_bucket, token_bucket>>
    /\ UNCHANGED <<wfvars, ivars, lkvars>>

\* time.time() advances
Tick ==
    /\ now < MaxTime
    /\ now' = now + 1
    /\ UNCHANGED <<request_bucket, token_bucket, active_requests,
                   request_history, tpc, t_start, t_timeout,
                   request_acquired, token_acquired>>
    /\ UNCHANGED <<wfvars, ivars, lkvars>>

-----------------------------------------------------------------------------
(* Threads that use the limiter as its contract asks: release() only      *)
(* after their own acquire() returned True                                 *)

\* a thread calls acquire
ClientAcquire(t) ==
    /\ tpc[t] = "idle"
    /\ \E timeout \in AcquireTimeouts : AcquireEnter(t, timeout)

\* a thread whose acquire returned True finishes its request: release(),
\* with or without actual_tokens
ClientRelease(t) ==
    /\ tpc[t] = "ret_true"
    /\ with_enter("concurrent_lock", t)
    /\ active_requests' = release(active_requests)
    /\ \E actual_tokens \in ActualTokens :
          token_bucket' = release_adjust(token_bucket, actual_tokens)
    /\ tpc' = [tpc EXCEPT ![t] = "idle"]
    /\ UNCHANGED <<now, request_bucket, request_history,
                   t_start, t_timeout, request_acquired, token_acquired>>
    /\ UNCHANGED <<wfvars, ivars, lkvars>>

\* a thread whose acquire returned False goes on without a request
ClientDenied(t) ==
    /\ ReturnedFalse(t)
    /\ tpc' = [tpc EXCEPT ![t] = "idle"]
    /\ UNCHANGED <<now, request_bucket, token_bucket, active_requests,
                   request_history, t_start, t_timeout, request_acquired,
                   token_acquired>>
    /\ UNCHANGED <<wfvars, ivars, lkvars>>

\* RateLimiter.get_stats(): available_tokens() refills both buckets
GetStats ==
    /\ lock_owner["request_bucket.lock"] = 0
    /\ lock_owner["token_bucket.lock"] = 0
    /\ request_bucket' = _refill(request_bucket, now)
    /\ token_bucket' = _refill(token_bucket, now)
    /\ UNCHANGED <<now, active_requests, request_history, tpc, t_start,
                   t_timeout, request_acquired, token_acquired>>
    /\ UNCHANGED <<wfvars, ivars, lkvars>>

\* the steps of acquire, by any thread
AcquireSteps ==
    \/ \E t \in Threads : AcquireSlot(t)
    \/ \E t \in Threads : AcquireSlotSleep(t)
    \/ \E t \in Threads : RequestConsume(t)
    \/ \E t \in Threads : RequestCheck(t)
    \/ \E t \in Threads : TokenConsume(t)
    \/ \E t \in Threads : TokenCheck(t)
    \/ \E t \in Threads : AcquireDecide(t)

NextRL ==
    \/ Tick
    \/ GetStats
    \/ \E t \in Threads : ClientAcquire(t)
    \/ AcquireSteps
    \/ \E t \in Threads : ClientRelease(t)
    \/ \E t \in Threads : ClientDenied(t)

SpecRL == Init /\ [][NextRL]_vars

-----------------------------------------------------------------------------
(* Threads that pass their own timeout to acquire(estimated_tokens,        *)
(* timeout): 0 (a falsy timeout), one second, or the default               *)

\* timeout arguments of these callers, in seconds
CallerTimeouts == {0, 1, DefaultTimeout}

\* a thread calls acquire(timeout=...)
ClientAcquireTimeout(t) ==
    /\ tpc[t] = "idle"
    /\ \E timeout \in CallerTimeouts : AcquireEnter(t, timeout)

NextRLTimeout ==
    \/ Tick
    \/ GetStats
    \/ \E t \in Threads : ClientAcquireTimeout(t)
    \/ AcquireSteps
    \/ \E t \in Threads : ClientRelease(t)
    \/ \E t \in Threads : ClientDenied(t)

SpecRLTimeout == Init /\ [][NextRLTimeout]_vars

-----------------------------------------------------------------------------
(* BaseAgent.invoke_llm: agents/base_agent.py.  Threads of one agent, that *)
(* is of one RateLimiter, each running invoke_llm once                     *)

\* invoke_llm is called: attempt 0 begins with rate_limiter.acquire()
InvokeCall(t) ==
    /\ tpc[t] = "idle"
    /\ attempt' = [attempt EXCEPT ![t] = 0]
    /\ grants' = [grants EXCEPT ![t] = 0]
    /\ releases' = [releases EXCEPT ![t] = 0]
    /\ tpc' = [tpc EXCEPT ![t] = "slot"]
    /\ t_start' = [t_start EXCEPT ![t] = now]
    /\ t_timeout' = [t_timeout EXCEPT ![t] = DefaultTimeout]
    /\ UNCHANGED <<now, request_bucket, token_bucket, active_requests,
                   request_history, request_acquired, token_acquired>>
    /\ UNCHANGED <<total_requests, agent_errors>>
    /\ UNCHANGED <<wfvars, lkvars>>

\* acquire() returned False: "raise RuntimeError('Rate limit exceeded')"
\* inside the try block, which leads to the except clause
InvokeDenied(t) ==
    /\ ReturnedFalse(t)
    /\ tpc' = [tpc EXCEPT ![t] = "except"]
    /\ UNCHANGED <<now, request_bucket, token_bucket, active_requests,
                   request_history, t_start, t_timeout, request_acquired,
                   token_acquired>>
    /\ UNCHANGED ivars
    /\ UNCHANGED <<wfvars, lkvars>>

\* acquire() returned True and self.llm.invoke succeeds: usage is tracked,
\* release() is called and the response is returned
InvokeSuccess(t) ==
    /\ tpc[t] = "ret_true"
    /\ grants' = [grants EXCEPT ![t] = grants[t] + 1]
    /\ total_requests' = total_requests + 1
    /\ with_enter("concurrent_lock", t)
    /\ active_requests' = release(active_requests)
    /\ releases' = [releases EXCEPT ![t] = releases[t] + 1]
    /\ tpc' = [tpc EXCEPT ![t] = "returned"]
    /\ UNCHANGED <<now, request_bucket, token_bucket, request_history,
                   t_start, t_timeout, request_acquired, token_acquired>>
    /\ UNCHANGED <<attempt, agent_errors>>
    /\ UNCHANGED <<wfvars, lkvars>>

\* acquire() returned True and self.llm.invoke raises
InvokeFailure(t) ==
    /\ tpc[t] = "ret_true"
    /\ grants' = [grants EXCEPT ![t] = grants[t] + 1]
    /\ tpc' = [tpc EXCEPT ![t] = "except"]
    /\ UNCHANGED <<now, request_bucket, token_bucket, active_requests,
                   request_history, t_start, t_timeout, request_acquired,
                   token_acquired>>
    /\ UNCHANGED <<attempt, releases, total_requests, agent_errors>>
    /\ UNCHANGED <<wfvars, lkvars>>

\* the last-attempt test letting one attempt more through
LastAttempt_one_more(a) == a = max_retries

\* "attempt == max_retries - 1"
LastAttempt(a) == a = max_retries - 1

\* the except clause: release(), then on the last attempt record the error
\* and re-raise, else back off and begin the next attempt with acquire()
InvokeExcept(t) ==
    /\ tpc[t] = "except"
    /\ with_enter("concurrent_lock", t)
    /\ active_requests' = release(active_requests)
    /\ releases' = [releases EXCEPT ![t] = releases[t] + 1]
    /\ IF LastAttempt(attempt[t])
       THEN /\ agent_errors' = agent_errors + 1
            /\ tpc' = [tpc EXCEPT ![t] = "raised"]
            /\ UNCHANGED <<attempt, t_start, t_timeout>>
       ELSE /\ attempt' = [attempt EXCEPT ![t] = attempt[t] + 1]
            /\ tpc' = [tpc EXCEPT ![t] = "slot"]
            /\ t_start' = [t_start EXCEPT ![t] = now]
            /\ t_timeout' = [t_timeout EXCEPT ![t] = DefaultTimeout]
            /\ UNCHANGED agent_errors
    /\ UNCHANGED <<now, request_bucket, token_bucket, request_history,
                   request_acquired, token_acquired>>
    /\ UNCHANGED <<grants, total_requests>>
    /\ UNCHANGED <<wfvars, lkvars>>

NextInvoke ==
    \/ Tick
    \/ \E t \in Threads : InvokeCall(t)
    \/ AcquireSteps
    \/ \E t \in Threads : InvokeDenied(t)
    \/ \E t \in Threads : InvokeSuccess(t)
    \/ \E t \in Threads : InvokeFailure(t)
    \/ \E t \in Threads : InvokeExcept(t)

SpecInvoke == Init /\ [][NextInvoke]_vars

-----------------------------------------------------------------------------
(* The agents of each workflow calling the LLM through their own limiters. *)
(* A workflow is one thread: its agents call one after the other, a worker *)
(* only after the supervisor (or after itself, on a retry).  An acquire    *)
(* that cannot be granted yet is a thread that takes no step.              *)

\* agent a of workflow w gets acquire() granted by self.rate_limiter and
\* starts the LLM operation
AgentCallStart(w, a) ==
    LET l == rate_limiter[w][a]
    IN  /\ calling[w] = "none"
        /\ a = "supervisor" \/ last_caller[w] \in {"supervisor", a}
        /\ SlotFree(l.active_requests)
        /\ consume_result(l.request_bucket, 1, now)
        /\ consume_result(l.token_bucket, estimated_tokens, now)
        /\ rate_limiter' =
              [rate_limiter EXCEPT ![w][a] =
                  [request_bucket |-> consume(l.request_bucket, 1, now),
                   token_bucket |->
                       consume(l.token_bucket, estimated_tokens, now),
                   active_requests |-> l.active_requests + 1]]
        /\ calling' = [calling EXCEPT ![w] = a]
        /\ last_caller' = [last_caller EXCEPT ![w] = a]
        /\ granted' = granted + 1
        /\ UNCHANGED <<graphvars, memvars, rlvars, ivars, lkvars>>

\* the LLM operation of workflow w ends (returning or raising) and
\* invoke_llm calls self.rate_limiter.release()
AgentCallEnd(w) ==
    /\ calling[w] # "none"
    /\ rate_limiter' =
          [rate_limiter EXCEPT ![w][calling[w]].active_requests = release(@)]
    /\ calling' = [calling EXCEPT ![w] = "none"]
    /\ UNCHANGED <<last_caller, granted>>
    /\ UNCHANGED <<graphvars, memvars, rlvars, ivars, lkvars>>

\* the wall clock advances
AgentsTick ==
    /\ now < MaxTime
    /\ now' = now + 1
    /\ granted' = 0
    /\ UNCHANGED <<rate_limiter, calling, last_caller>>
    /\ UNCHANGED <<request_bucket, token_bucket, active_requests,
                   request_history, tpc, t_start, t_timeout,
                   request_acquired, token_acquired>>
    /\ UNCHANGED <<graphvars, memvars, ivars, lkvars>>

NextAgents ==
    \/ AgentsTick
    \/ \E w \in Workflows, a \in AgentNames : AgentCallStart(w, a)
    \/ \E w \in Workflows : AgentCallEnd(w)

SpecAgents == Init /\ [][NextAgents]_vars

-----------------------------------------------------------------------------
(* MemoryManager: state/memory.py                                          *)

\* the messages added: AgentMessage reduced to sender, recipient and type
MemoryMessages ==
    { [sender |-> "supervisor", recipient |-> "researcher",
       message_type |-> "task"],
      [sender |-> "researcher", recipient |-> "supervisor",
       message_type |-> "result"],
      [sender |-> "supervisor", recipient |-> "reviewer",
       message_type |-> "task"],
      [sender |-> "reviewer", recipient |-> "supervisor",
       message_type |-> "feedback"] }

\* arguments of get_recent_messages: n, and the optional agent and
\* message_type filters (None when not given)
RecentQueries ==
    [n : 0..max_messages,
     agent : {None, "researcher"},
     message_type : {None, "task"}]

\* deque.append on a deque(maxlen=max_messages)
deque_append(buffer, message) ==
    IF Len(buffer) >= max_messages
    THEN Tail(buffer) \o <<message>>
    ELSE buffer \o <<message>>

\* the slice messages[-n:] for n >= 0: -0 is 0, so the slice is the whole
\* list when n is 0
slice_last(messages, n) ==
    IF n = 0 \/ n >= Len(messages) THEN messages
    ELSE SubSeq(messages, Len(messages) - n + 1, Len(messages))

\* MemoryManager.get_recent_messages(n, agent, message_type); a list
\* comprehension with a condition is SelectSeq
get_recent_messages(buffer, n, agent, message_type) ==
    LET by_agent(m) == m.sender = agent \/ m.recipient = agent
        by_type(m) == m.message_type = message_type
        messages1 == IF agent # None THEN SelectSeq(buffer, by_agent)
                     ELSE buffer
        messages2 == IF message_type # None
                     THEN SelectSeq(messages1, by_type)
                     ELSE messages1
    IN  slice_last(messages2, n)

\* MemoryManager.add_message(message), with _summarize_old_messages
MemoryAddMessage ==
    /\ total_messages < MaxAdds
    /\ \E message \in MemoryMessages :
          LET buffer == deque_append(message_buffer, message)
          IN  /\ message_buffer' = buffer
              /\ summarization_count' =
                    IF Len(buffer) >= max_messages
                       /\ Len(buffer) >= SummarizeMinLen
                    THEN summarization_count + 1
                    ELSE summarization_count
    /\ total_messages' = total_messages + 1
    /\ UNCHANGED <<recent_query, recent>>
    /\ UNCHANGED <<graphvars, agvars, rlvars, ivars, lkvars>>

\* a call of MemoryManager.get_recent_messages
MemoryGetRecent ==
    /\ \E q \in RecentQueries :
          /\ recent_query' = <<q>>
          /\ recent' = get_recent_messages(message_buffer, q.n, q.agent,
                                           q.message_type)
    /\ UNCHANGED <<message_buffer, total_messages, summarization_count>>
    /\ UNCHANGED <<graphvars, agvars, rlvars, ivars, lkvars>>

NextMemory ==
    \/ MemoryAddMessage
    \/ MemoryGetRecent

SpecMemory == Init /\ [][NextMemory]_vars

-----------------------------------------------------------------------------
(* Properties of the rate limiter and of invoke_llm                        *)

\* acquires that returned True and have not been released
Outstanding == Cardinality({t \in Threads : ReturnedTrue(t)})

\* C7: with threads that release only after their own acquire returned
\* True, the number of acquires that returned True and are not yet released
\* never exceeds max_concurrent, and active_requests equals that number
\* whenever no acquire is in progress.
C7_ConcurrencyInvariant ==
    /\ Outstanding <= max_concurrent
    /\ (\A t \in Threads : ~InAcquire(t)) => active_requests = Outstanding

\* every slot is taken by a granted request while another thread waits in
\* the slot loop
C7_Witness ==
    /\ Outstanding = max_concurrent
    /\ \E t \in Threads : tpc[t] = "slot"

BucketInRange(b) ==
    0 <= b.tokens /\ b.tokens <= b.capacity * TicksPerMinute

\* C8: both buckets' token counts stay within [0, capacity] under every
\* interleaving of consume, wait_for_tokens, available_tokens and refills.
C8_BucketInvariant ==
    BucketInRange(request_bucket) /\ BucketInRange(token_bucket)

\* the request bucket was refilled after time 0, has been emptied, and a
\* thread's consume has been refused
C8_Witness ==
    /\ request_bucket.tokens = 0
    /\ request_bucket.last_refill > 0
    /\ \E t \in Threads : tpc[t] = "req_check"

\* C9: inside invoke_llm a thread never calls release() more often than
\* its acquire() calls returned True, and when invoke_llm has returned or
\* raised the two numbers are equal.
C9_ReleaseMatchesAcquire ==
    \A t \in Threads :
        /\ releases[t] <= grants[t]
        /\ tpc[t] \in {"returned", "raised"} => releases[t] = grants[t]

\* C21: one invoke_llm call makes at most max_retries attempts, of which at
\* most max_retries invoke the LLM; it returns at its first successful
\* attempt (all attempts before it failed) and makes no attempt after it; a
\* failed attempt, a quota denial included, is followed by the next attempt
\* unless it was attempt max_retries - 1, and the call raises exactly then,
\* with all max_retries attempts failed.
C21_BoundedRetries ==
    /\ [](\A t \in Threads :
            /\ attempt[t] \in 0..(max_retries - 1)
            /\ grants[t] <= attempt[t] + 1
            /\ tpc[t] = "returned" => releases[t] = attempt[t] + 1
            /\ tpc[t] = "raised"
                  => (attempt[t] = max_retries - 1
                      /\ releases[t] = max_retries))
    /\ [][ \A t \in Threads :
              /\ (ReturnedFalse(t) /\ tpc'[t] # tpc[t])
                    => tpc'[t] = "except"
              /\ (tpc[t] = "except" /\ tpc'[t] # tpc[t])
                    => IF attempt[t] < max_retries - 1
                       THEN tpc'[t] = "slot" /\ attempt'[t] = attempt[t] + 1
                       ELSE tpc'[t] = "raised"
              /\ (tpc[t] \in {"returned", "raised"})
                    => (tpc'[t] = tpc[t] /\ attempt'[t] = attempt[t]
                        /\ grants'[t] = grants[t]) ]_vars

\* a call returned at a later attempt, after failed ones of which one was
\* a quota denial
C21_Witness ==
    \E t \in Threads :
        /\ tpc[t] = "returned" /\ attempt[t] >= 1
        /\ grants[t] < attempt[t] + 1

RECURSIVE FailedAttempts(_)
\* failed attempts whose except clause has run, over the threads 1..n: every
\* release() but the one of a successful attempt
FailedAttempts(n) ==
    IF n = 0 THEN 0
    ELSE FailedAttempts(n - 1)
         + releases[n] - (IF tpc[n] = "returned" THEN 1 ELSE 0)

\* C22: the agent's error list has one record for every failed attempt of
\* its invoke_llm calls, also for those followed by a successful attempt.
C22_ErrorPerFailedAttempt ==
    agent_errors = FailedAttempts(NThreads)

\* slots held inside the limiter: by threads past the slot loop of acquire
\* and by threads whose acquire returned True
SlotsHeld ==
    Cardinality({t \in Threads : PastSlotLoop(t) \/ ReturnedTrue(t)})

\* C10: when acquire has returned False it holds no slot: active_requests
\* counts exactly the slots of the other threads, as before the call.
C10_FailedAcquireHoldsNoSlot ==
    (\E t \in Threads : ReturnedFalse(t)) => active_requests = SlotsHeld

\* acquire returned False after claiming a slot and timing out on a bucket
C10_Witness ==
    \E t \in Threads : tpc[t] = "ret_false_bucket"

\* what a bucket holds after n tokens are handed back to it
Refunded(b, n) ==
    Min(b.capacity * TicksPerMinute, b.tokens + n * TicksPerMinute)

\* C11: acquire returns True only when it holds a slot, one call-rate token
\* and estimated_tokens cost tokens; when it returns False after the bucket
\* waits, the tokens the call took from either bucket are handed back (a
\* call whose cost bucket timed out leaves the call-rate bucket as it found
\* it).
C11_AcquiredAsUnit ==
    [][ \A t \in Threads :
          /\ (tpc[t] = "decide" /\ tpc'[t] = "ret_true")
                => /\ request_acquired[t] /\ token_acquired[t]
                   /\ active_requests' >= 1
          /\ (tpc[t] = "decide" /\ tpc'[t] = "ret_false_bucket")
                => /\ request_acquired[t]
                        => request_bucket'.tokens
                             = Refunded(request_bucket, 1)
                   /\ token_acquired[t]
                        => token_bucket'.tokens
                             = Refunded(token_bucket, estimated_tokens) ]_vars

\* C12: with timeout=0, a call that finds a call-rate token takes it, and a
\* call whose request for a call-rate token is refused gives up at once
\* instead of waiting for the refill.
C12_ZeroTimeoutFailsAtOnce ==
    [][ \A t \in Threads :
          /\ ( /\ tpc[t] = "req_consume" /\ tpc'[t] # tpc[t]
               /\ t_timeout[t] = 0
               /\ HasTokens(_refill(request_bucket, now), 1) )
                => request_acquired'[t]
          /\ ( /\ tpc[t] = "req_check" /\ tpc'[t] # tpc[t]
               /\ t_timeout[t] = 0 )
                => (tpc'[t] = "tok_consume" /\ ~request_acquired'[t]) ]_vars

-----------------------------------------------------------------------------
(* Properties of the control loop                                          *)

Terminated == node = "END"

C2_EndStatusIsTerminal ==
    Terminated => state.workflow_status \in {"completed", "failed"}

\* C3: a terminated workflow whose status is 'completed' has a non-empty
\* final_output (status is 'completed' only when an output exists or was
\* derived from the draft).
C3_CompletedHasFinalOutput ==
    (Terminated /\ state.workflow_status = "completed")
        => state.final_output # ""

\* the termination condition as the specification words it
ForceCondition(s) ==
    \/ s.iteration_count >= max_iterations
    \/ s.revision_count >= MaxRevisions
    \/ (s.review_decision = "approve" /\ s.final_output # "")

\* C4: a supervisor step whose input satisfies the termination condition
\* sets next_agent to 'finish', appends no message and does not consult the
\* Router (no decision is recorded).
C4_TerminationCheckPrecedes ==
    [][ (node = "supervisor" /\ ForceCondition(state))
            => /\ state'.next_agent = "finish"
               /\ node' = "END"
               /\ state'.messages = state.messages
               /\ decision_history' = decision_history ]_vars

\* a workflow ended by the forced finish after an approval, below the
\* iteration limit
C4_Witness ==
    /\ Terminated
    /\ state.review_decision = "approve"
    /\ state.final_output # ""
    /\ state.iteration_count < max_iterations

\* C5: iteration_count <= max_iterations in every reachable state.
C5_IterationBound ==
    state.iteration_count <= max_iterations

\* the limit was reached and the supervisor node ran on it
C5_Witness ==
    /\ Terminated
    /\ state.iteration_count = max_iterations
    /\ state.warnings # <<>>

\* C6: revision_count <= 3 in every reachable state; once it is 3 only the
\* supervisor can run, and its step decides 'finish' and ends the workflow
\* (the reviewer never runs again).
C6_RevisionBound ==
    /\ [](state.revision_count <= MaxRevisions)
    /\ [](state.revision_count = MaxRevisions
            => node \in {"supervisor", "END"})
    /\ [][ (node = "supervisor" /\ state.revision_count = MaxRevisions)
            => (state'.next_agent = "finish" /\ node' = "END") ]_vars

\* three revisions were requested and the workflow was ended by the
\* supervisor's forced finish, not by the iteration limit
C6_Witness ==
    /\ Terminated
    /\ state.revision_count = MaxRevisions
    /\ state.workflow_status = "completed"
    /\ state.warnings = <<>>

\* C13: when the content creator has run (successfully) in every one of
\* max_iterations loop iterations, which is what a Router that always
\* answers content_creator produces, the workflow ends with iteration_count
\* = max_iterations, workflow_status 'failed', no review, and exactly
\* max_iterations messages.
C13_ScenarioA ==
    (Terminated /\ state.content_version = max_iterations)
        => /\ state.iteration_count = max_iterations
           /\ state.workflow_status = "failed"
           /\ state.review_feedback = ""
           /\ Len(state.messages) = max_iterations

\* the combined review of scenario B: score 0.9, no issues
ScenarioBReview ==
    [kind |-> "ok", score |-> 90, issues |-> <<>>, llm_decision |-> "approve"]

\* C14: a review with score 0.9 and no issues of a non-empty draft written
\* from research decides 'approve' and sets final_output to the draft; the
\* supervisor step that follows ends the workflow with status 'completed'
\* and a non-empty final_output, whatever the Router answers.
C14_ScenarioB ==
    /\ [][ ( /\ node = "reviewer"
             /\ state.research_findings # ""
             /\ state.content_draft # ""
             /\ state' = Merge(state,
                               ReviewerExecute(state, ScenarioBReview)) )
            => /\ state'.review_decision = "approve"
               /\ state'.final_output = state.content_draft ]_vars
    /\ [][ ( /\ node = "supervisor"
             /\ state.current_agent = "reviewer"
             /\ state.review_decision = "approve"
             /\ state.final_output # "" )
            => /\ node' = "END"
               /\ state'.next_agent = "finish"
               /\ state'.workflow_status = "completed"
               /\ state'.final_output # ""
               /\ decision_history' = decision_history ]_vars

\* research, draft, the scenario B review, then the forced finish
C14_Witness ==
    /\ Terminated
    /\ state.research_findings = "findings"
    /\ state.content_draft = "draft text"
    /\ state.review_score = 90
    /\ state.review_decision = "approve"
    /\ state.final_output = state.content_draft
    /\ state.workflow_status = "completed"
    /\ state.warnings = <<>>

\* the combined review of scenario D: score 0.5, no issues
ScenarioDReview ==
    [kind |-> "ok", score |-> 50, issues |-> <<>>,
     llm_decision |-> "request_revision"]

\* the state of scenario D: the review just recorded is the scenario D
\* review and revision_count, which counts it, is one below the cap
ScenarioD(s) ==
    /\ s.current_agent = "reviewer"
    /\ s.review_score = 50
    /\ s.review_feedback = "feedback"
    /\ s.revision_count = MaxRevisions - 1

IsPrefix(a, b) == Len(a) <= Len(b) /\ SubSeq(b, 1, Len(a)) = a

\* worker updates that carried no message: the workers' except paths, each
\* of which appends one error instead
UpdatesWithoutMessage ==
    Cardinality({i \in 1..Len(state.errors) :
                    state.errors[i] # "Supervisor error"})

\* C16: every step leaves the old messages, errors and warnings as a
\* prefix of the new ones, and len(messages) equals the number of updates
\* that carried one message (the recorded supervisor decisions plus the
\* worker runs that did not fail), whatever else those updates overwrote.
C16_AppendOnly ==
    /\ [][ \A k \in {"messages", "errors", "warnings"} :
              IsPrefix(state[k], state'[k]) ]_vars
    /\ [](Len(state.messages)
             = decision_history + steps - UpdatesWithoutMessage)

\* all three lists have grown, messages by several updates
C16_Witness ==
    /\ Len(state.messages) >= 3
    /\ Len(state.errors) >= 2
    /\ state.warnings # <<>>

\* the rule table as the specification states it
RuleTable(s) ==
    IF s.research_findings = "" THEN "researcher"
    ELSE IF s.content_draft = "" THEN "content_creator"
    ELSE IF s.review_feedback = "" THEN "reviewer"
    ELSE IF s.review_decision = "request_revision"
            /\ s.revision_count < MaxRevisions THEN "content_creator"
    ELSE "finish"

\* the stages a decision may name
StageEnum == {"researcher", "content_creator", "reviewer", "finish"}

ValidDecision(d) ==
    d.next_agent \in StageEnum /\ d.confidence \in 0..100

\* C17 as stated: in every state the fallback decision is the one the rule
\* table gives, and it is a valid decision.
C17_FallbackIsRuleTable ==
    /\ _fallback_decision(state).next_agent = RuleTable(state)
    /\ ValidDecision(_fallback_decision(state))

\* C17 amended: the fallback answers 'finish' when iteration_count has
\* reached max_iterations or revision_count has reached 3, and otherwise
\* (in particular wherever the Router is consulted) what the rule table
\* gives; it is a valid decision in every state.
C17_FallbackIsGuardedRuleTable ==
    /\ _fallback_decision(state).next_agent
          = (IF \/ state.iteration_count >= max_iterations
                \/ state.revision_count >= MaxRevisions
             THEN "finish" ELSE RuleTable(state))
    /\ RouterConsulted(state)
          => _fallback_decision(state).next_agent = RuleTable(state)
    /\ ValidDecision(_fallback_decision(state))

\* the revision cap is reached with no research done and iterations left:
\* the rule table alone would name the researcher
C17_Witness ==
    /\ node = "supervisor"
    /\ state.revision_count >= MaxRevisions
    /\ state.iteration_count < max_iterations
    /\ state.research_findings = ""
    /\ _fallback_decision(state).next_agent = "finish"

\* values main.py can store in settings.max_iterations (--max-iterations)
MaxIterationsSettings == 1..max_iterations

\* C18: the fallback decision for a WorkflowState is the same whatever the
\* state outside that WorkflowState is, here whatever value
\* settings.max_iterations holds when the fallback runs.
C18_FallbackDeterminism ==
    \A m1, m2 \in MaxIterationsSettings :
        _fallback_decision_settings(m1, state)
            = _fallback_decision_settings(m2, state)

\* a reply is a well-formed decision object when it parses to a JSON object
\* naming a stage of SupervisorDecision, with instructions
WellFormedDecision(r) ==
    /\ r.kind = "ok"
    /\ r.next_agent \in StageEnum \cup {"human_review"}
    /\ r.instructions \notin {None, Missing}

\* C19: whenever the Router is consulted and its reply is an LLM failure,
\* not JSON, or not a well-formed decision object, the routing decision is
\* exactly the fallback decision for the current state, and execute
\* returns an update naming the next agent.
C19_FailureFallsBack ==
    (node = "supervisor" /\ RouterConsulted(state))
        => \A r \in RouterResponses :
              /\ ~WellFormedDecision(r)
                    => _make_routing_decision(state, r)
                          = _fallback_decision(state)
              /\ "next_agent" \in DOMAIN SupervisorExecute(state, r)

\* C20: for every state and every Router reply the update returned by
\* execute contains next_agent, one of 'researcher', 'content_creator',
\* 'reviewer', 'finish'.
C20_NextAgentInEnum ==
    node = "supervisor"
        => \A r \in RouterResponses :
              LET updates == SupervisorExecute(state, r)
              IN  /\ "next_agent" \in DOMAIN updates
                  /\ updates.next_agent \in StageEnum

-----------------------------------------------------------------------------
(* Properties of the stage workers                                         *)

\* the LLM call of each worker failing after its retries
ResearchLLMFailed == [kind |-> "synthesis_failed", text |-> ""]
ContentLLMFailed == [kind |-> "raise", text |-> ""]
ReviewLLMFailed ==
    [kind |-> "llm_failed", score |-> 50,
     issues |-> <<"Unable to perform detailed review">>,
     llm_decision |-> "request_revision"]

\* C23: whenever the LLM call of a worker fails after its retries, the
\* update the worker returns appends at least one entry to errors and
\* carries a sentinel output, and the graph goes back to the supervisor.
C23_LLMFailureSurfaced ==
    [][ /\ ( /\ node = "researcher"
             /\ state' = Merge(state,
                               ResearcherExecute(state, ResearchLLMFailed)) )
           => /\ Len(state'.errors) > Len(state.errors)
              /\ state'.research_findings = "Synthesis failed"
              /\ node' = "supervisor"
        /\ ( /\ node = "content_creator"
             /\ state' = Merge(state,
                               ContentCreatorExecute(state, ContentLLMFailed)) )
           => /\ Len(state'.errors) > Len(state.errors)
              /\ state'.content_draft = "Content creation failed"
              /\ node' = "supervisor"
        /\ ( /\ node = "reviewer"
             /\ ~validate_raises(state.content_draft)
             /\ state' = Merge(state,
                               ReviewerExecute(state, ReviewLLMFailed)) )
           => /\ Len(state'.errors) > Len(state.errors)
              /\ node' = "supervisor" ]_vars

\* the keys the tests of test_agents.py assert in each worker's update
ResearcherKeys ==
    {"research_findings", "research_sources", "research_quality_score"}
ContentCreatorKeys == {"content_draft", "content_version"}
ReviewerKeys == {"review_score", "review_feedback", "review_decision"}

\* C24: on its success path and on its failure paths, the update a worker
\* returns contains every key its test asserts, and the reviewer's
\* review_decision is one of 'approve', 'request_revision', 'reject'.
C24_WellFormedUpdates ==
    /\ node = "researcher"
          => \A o \in ResearchOutcomes :
                ResearcherKeys \subseteq DOMAIN ResearcherExecute(state, o)
    /\ node = "content_creator"
          => \A o \in ContentOutcomes :
                ContentCreatorKeys
                    \subseteq DOMAIN ContentCreatorExecute(state, o)
    /\ node = "reviewer"
          => \A o \in ReviewOutcomes :
                LET updates == ReviewerExecute(state, o)
                IN  /\ ReviewerKeys \subseteq DOMAIN updates
                    /\ updates.review_decision
                          \in {"approve", "request_revision", "reject"}

\* the updates the agent about to run can return
NodeUpdates ==
    IF node = "supervisor"
    THEN {SupervisorExecute(state, r) : r \in RouterResponses}
    ELSE IF node = "researcher"
    THEN {ResearcherExecute(state, o) : o \in ResearchOutcomes}
    ELSE IF node = "content_creator"
    THEN {ContentCreatorExecute(state, o) : o \in ContentOutcomes}
    ELSE IF node = "reviewer"
    THEN {ReviewerExecute(state, o) : o \in ReviewOutcomes}
    ELSE {}

\* the updates the graph node about to run can return
StepUpdates ==
    IF node = "supervisor"
    THEN {_supervisor_node(state, r) : r \in RouterResponses}
    ELSE NodeUpdates

\* C25: the supervisor, the workers, add_message and increment_iteration
\* leave the state they are given as it is: every change of a step is
\* the merge of a returned update (a field outside the update keeps its
\* value, the task and the user context never change), and no update
\* contains the key 'task'.
C25_UpdatesOnly ==
    /\ [](\A u \in NodeUpdates :
             /\ "task" \notin DOMAIN u
             /\ DOMAIN u \subseteq DOMAIN state)
    /\ [](/\ DOMAIN add_message(state, "supervisor", "text", "task")
                = {"messages"}
          /\ DOMAIN increment_iteration(state) = {"iteration_count"})
    /\ [][ /\ state'.task = state.task
           /\ state'.user_context = state.user_context
           /\ state' # state
                 => \E u \in StepUpdates : state' = Merge(state, u) ]_vars

\* the supervisor and each of the three workers have run and returned
\* updates that were merged
C25_Witness ==
    /\ state.iteration_count >= 4
    /\ state.research_query # ""
    /\ state.content_version >= 1
    /\ state.review_feedback = "feedback"
    /\ Len(state.messages) >= 7
    /\ state.task = "task"

\* C26: final_output and metadata are each written at most once: an update
\* carrying either of them is returned only while final_output is empty
\* and metadata is the empty dict, it carries both, and its final_output is
\* not empty; once final_output is non-empty no step changes it or
\* metadata.
C26_WrittenOnce ==
    /\ [](\A u \in StepUpdates :
             ("final_output" \in DOMAIN u \/ "metadata" \in DOMAIN u)
                => /\ state.final_output = ""
                   /\ DOMAIN state.metadata = {}
                   /\ {"final_output", "metadata"} \subseteq DOMAIN u
                   /\ u.final_output # ""
                   /\ DOMAIN u.metadata # {})
    /\ [][ /\ state.final_output # ""
                 => /\ state'.final_output = state.final_output
                    /\ state'.metadata = state.metadata
           /\ state'.metadata # state.metadata
                 => state'.final_output # state.final_output ]_vars

\* the reviewer approved and wrote final_output and metadata, and the
\* supervisor step that ended the run left both as they were
C26_Witness ==
    /\ Terminated
    /\ state.final_output = "draft text"
    /\ state.review_decision = "approve"
    /\ DOMAIN state.metadata
          = {"word_count", "quality_score", "sources_used", "revisions"}

-----------------------------------------------------------------------------
(* Properties of the control loop's bookkeeping                            *)

\* C27 as stated: every supervisor step, one that decides 'finish'
\* included, increases iteration_count by exactly 1; no worker changes it;
\* it never decreases; at termination it equals the number of supervisor
\* steps performed.
C27_IterationCountsEverySupervisorStep ==
    /\ [][ /\ node = "supervisor"
                 => state'.iteration_count = state.iteration_count + 1
           /\ node # "supervisor"
                 => state'.iteration_count = state.iteration_count
           /\ state'.iteration_count >= state.iteration_count ]_vars
    /\ [](Terminated => state.iteration_count = supervisor_steps)

\* C27, amended: a supervisor step that passes the iteration-limit check
\* of _supervisor_node increases iteration_count by exactly 1, whatever
\* stage it chooses and also when SupervisorAgent.execute decides 'finish';
\* the supervisor step that finds the limit reached ends the run and leaves
\* the count as it is; no worker changes it; it never decreases; at
\* termination it equals the number of supervisor steps that passed the
\* limit check.
C27_IterationCountsExecutedSteps ==
    /\ [][ /\ (node = "supervisor" /\ ~IterationLimitReached(state))
                 => state'.iteration_count = state.iteration_count + 1
           /\ (node = "supervisor" /\ IterationLimitReached(state))
                 => /\ state'.iteration_count = state.iteration_count
                    /\ node' = "END"
           /\ node # "supervisor"
                 => state'.iteration_count = state.iteration_count
           /\ state'.iteration_count >= state.iteration_count ]_vars
    /\ [](state.iteration_count
             = supervisor_steps
               - (IF Terminated /\ state.warnings # <<>> THEN 1 ELSE 0))

\* a run ended by SupervisorAgent.execute deciding 'finish' after workers
\* had run; the count includes that last step
C27_Witness ==
    /\ Terminated
    /\ state.warnings = <<>>
    /\ steps >= 2
    /\ state.iteration_count = steps + 1
    /\ supervisor_steps = state.iteration_count

\* the stage workers
Workers == {"researcher", "content_creator", "reviewer"}

\* C28: every supervisor step is followed by the execution of exactly one
\* worker, the one next_agent names, or by the end of the run; every worker
\* execution, whatever its outcome, is followed by a supervisor step; so
\* supervisor steps and worker executions alternate.
C28_NoStepSkipped ==
    /\ [][ /\ node = "supervisor"
                 => /\ steps' = steps
                    /\ \/ node' = "END"
                       \/ node' \in Workers /\ node' = state'.next_agent
           /\ node \in Workers
                 => /\ steps' = steps + 1
                    /\ state'.current_agent = node
                    /\ node' = "supervisor"
                    /\ supervisor_steps' = supervisor_steps
           /\ node # "END" ]_vars
    /\ [](/\ node \in Workers \cup {"supervisor", "END"}
          /\ node = "supervisor" => supervisor_steps = steps
          /\ node # "supervisor" => supervisor_steps = steps + 1)

\* a run in which a worker failed internally, the supervisor ran after it,
\* further workers ran, and the run ended
C28_Witness ==
    /\ Terminated
    /\ steps >= 3
    /\ supervisor_steps = steps + 1
    /\ Len(state.errors) >= 1
    /\ state.errors[1] = "Research error"
    /\ state.content_version >= 1

\* more than settings.timeout_seconds have passed since the workflow was
\* created (at clock 0)
WorkflowTimedOut == now * 60 > timeout_seconds * TicksPerMinute

\* C29: a supervisor step that begins after the workflow timeout has been
\* exceeded forces 'finish', sets workflow_status to 'failed', appends a
\* timeout error and ends the run.
C29_TimeoutForcesFailed ==
    [][ ( /\ node = "supervisor"
          /\ supervisor_steps' = supervisor_steps + 1
          /\ WorkflowTimedOut )
         => /\ state'.next_agent = "finish"
            /\ state'.workflow_status = "failed"
            /\ Len(state'.errors) = Len(state.errors) + 1
            /\ node' = "END" ]_vars

-----------------------------------------------------------------------------
(* Properties of the reviewer's decision                                   *)

\* scores around the thresholds of the table (hundredths)
ScoreSamples == {0, 39, 40, 50, 74, 75, 84, 85, 100}

\* issue lists of every length up to four, without and with a critical
\* issue
IssueSamples ==
    LET texts == {"unclear wording", "plagiarism detected"}
    IN  UNION {[1..n -> texts] : n \in 0..2}
        \cup {[i \in 1..n |-> "unclear wording"] : n \in 3..4}
        \cup {<<"unclear wording", "unclear wording", "unclear wording",
                "plagiarism detected">>}

\* the decision table
DecisionTable(score, issues) ==
    IF \E i \in 1..Len(issues) : issues[i] \in CriticalIssues THEN "reject"
    ELSE IF score >= 85 /\ Len(issues) <= 3 THEN "approve"
    ELSE IF score >= 75 /\ Len(issues) <= 2 THEN "approve"
    ELSE IF score < 40 THEN "reject"
    ELSE "request_revision"

\* C30: the reviewer's decision depends on the combined score and the issue
\* list only, not on the decision the LLM proposed, and it is the one the
\* table gives: a critical issue rejects; else score >= 0.85 with at most 3
\* issues approves; else score >= 0.75 with at most 2 issues approves; else
\* a score below 0.4 rejects; otherwise a revision is requested.  The
\* review_decision a completed review stores is that decision.
C30_DecisionIsTable ==
    node = "reviewer"
        => /\ \A score \in ScoreSamples, issues \in IssueSamples :
                 \A d \in LLMDecisions :
                    _make_decision(score, issues, d)
                       = DecisionTable(score, issues)
           /\ \A o \in ReviewOutcomes :
                 (o.kind # "raise" /\ ~validate_raises(state.content_draft))
                    => ReviewerExecute(state, o).review_decision
                          = DecisionTable(o.score, o.issues)

\* a review was completed on a draft with words and approved at score 0.8
\* without issues (whatever the LLM proposed)
C30_Witness ==
    /\ node = "supervisor"
    /\ state.current_agent = "reviewer"
    /\ state.review_score = 80
    /\ state.review_decision = "approve"
    /\ state.review_feedback = "feedback"
    /\ ~validate_raises(state.content_draft)

-----------------------------------------------------------------------------
(* Properties of the agents' limiters                                      *)

\* LLM operations in flight, over all agents of all workflows
InFlight == Cardinality({w \in Workflows : calling[w] # "none"})

\* C31: the agents of a workflow, and of workflows running side by side,
\* draw on one quota: the acquires granted at one clock reading (no refill
\* between them) never exceed requests_per_minute, and the LLM operations
\* in flight never exceed max_concurrent.
C31_SharedQuota ==
    /\ granted <= requests_per_minute
    /\ InFlight <= max_concurrent

-----------------------------------------------------------------------------
(* Properties of MemoryManager                                             *)

\* whether message m passes the filters of query q
PassesFilters(m, q) ==
    /\ q.agent # None => (m.sender = q.agent \/ m.recipient = q.agent)
    /\ q.message_type # None => m.message_type = q.message_type

\* the positions of the buffer whose messages pass the filters of q
PassingPositions(buffer, q) ==
    {i \in 1..Len(buffer) : PassesFilters(buffer[i], q)}

\* C32: get_recent_messages(n) returns at most n messages: the n most
\* recently added messages of the buffer that pass the filters (all of
\* them when fewer than n pass), in insertion order, for every n >= 0.
C32_RecentMessages ==
    [][ (recent_query' # recent_query \/ recent' # recent)
          => LET q == recent_query'[1]
                 passing == PassingPositions(message_buffer, q)
                 k == Min(q.n, Cardinality(passing))
                 chosen == {i \in passing :
                               Cardinality({j \in passing : j > i}) < k}
             IN  /\ Len(recent') <= q.n
                 /\ Len(recent') = k
                 /\ \A r \in 1..Len(recent') :
                       \E i \in chosen :
                          /\ recent'[r] = message_buffer[i]
                          /\ Cardinality({j \in chosen : j < i}) = r - 1
        ]_vars

-----------------------------------------------------------------------------
(* Further properties of the rate limiter                                  *)

Sleeping(t) == tpc[t] \in {"slot_sleep", "req_sleep", "tok_sleep"}

\* C34: a thread sleeping in acquire's slot loop or in wait_for_tokens holds
\* neither concurrent_lock nor a bucket lock, so while it sleeps every
\* other thread's release() and consume() can proceed.
C34_NoLockAcrossWait ==
    \A t \in Threads :
       Sleeping(t) =>
          /\ \A l \in LockNames : lock_owner[l] # t
          /\ \A u \in Threads \ {t} :
                /\ tpc[u] = "ret_true" => ENABLED ClientRelease(u)
                /\ tpc[u] \in {"req_consume", "req_sleep"}
                      => ENABLED RequestConsume(u)
                /\ tpc[u] \in {"tok_consume", "tok_sleep"}
                      => ENABLED TokenConsume(u)

\* a thread sleeps in the slot loop while the thread holding the slot is
\* about to call release()
C34_Witness ==
    \E t, u \in Threads :
       /\ tpc[t] = "slot_sleep"
       /\ tpc[u] = "ret_true"
       /\ active_requests = max_concurrent

-----------------------------------------------------------------------------
(* Further properties of invoke_llm over a shared limiter                  *)

\* the threads whose acquire() returned True and whose self.llm.invoke has
\* not yet returned or raised
ExecutingLLM == {t \in Threads : tpc[t] = "ret_true"}

\* C35: when several threads run invoke_llm against the same RateLimiter,
\* the number of threads executing the LLM operation at the same time never
\* exceeds max_concurrent, acquire timeouts included.
C35_InvokeConcurrencyBound == Cardinality(ExecutingLLM) <= max_concurrent

\* C36: RateLimiter.active_requests is never negative, for every
\* interleaving of acquire (its rollback on a bucket timeout included),
\* release and the release() in invoke_llm's except clause.
C36_ActiveRequestsNonNegative == active_requests >= 0

-----------------------------------------------------------------------------
(* Further properties of the workflow                                      *)

\* the draft left by ContentCreatorAgent.execute's except clause
FailureSentinel == "Content creation failed"

\* C37: the failure sentinel of the content creator is never delivered as
\* the result: no step sets final_output to it, and the workflow does not
\* end 'completed' carrying it.
C37_SentinelNotDelivered == state.final_output # FailureSentinel

\* the supervisor is about to route after the content creator has produced
\* a revised draft: the reviewer had requested a revision, fewer than
\* MaxRevisions revisions are counted, and the supervisor will consult the
\* Router
RevisedDraftReady ==
    /\ node = "supervisor"
    /\ state.current_agent = "content_creator"
    /\ state.research_findings # ""
    /\ state.content_draft \notin {"", FailureSentinel}
    /\ state.content_version >= 2
    /\ state.review_feedback # ""
    /\ state.review_decision = "request_revision"
    /\ state.revision_count \in 1..(MaxRevisions - 1)
    /\ ~IterationLimitReached(state)
    /\ RouterConsulted(state)

\* C38: with routing by the fallback table alone (the Router failing), once
\* the content creator has produced the revised draft that the reviewer
\* asked for (revision_count < 3), the next stage chosen is the reviewer.
C38_RevisedDraftGoesToReviewer ==
    RevisedDraftReady =>
       \A r \in RouterResponses :
          r.kind # "ok" =>
             EdgeTarget(_route_from_supervisor(
                 Merge(state, _supervisor_node(state, r)))) = "reviewer"

\* the edges declared for the supervisor's conditional routing
DeclaredEdges == {"researcher", "content_creator", "reviewer", "finish"}

\* values of next_agent the Router can leave in the state: the names of the
\* prompt, another string, null, and a JSON array or object
NextAgentValues == (RouterAnswers \ {Missing}) \cup {Unhashable}

\* the current state with each of these under next_agent, and without the
\* key
RouteInputs ==
    {[state EXCEPT !.next_agent = a] : a \in NextAgentValues}
    \cup {[k \in DOMAIN state \ {"next_agent"} |-> state[k]]}

\* C39: for every value of next_agent ('human_review', a missing key, None
\* and unknown values included) _route_from_supervisor returns one of the
\* four declared edges: the named worker for the three worker names, and
\* 'finish' for everything else.
C39_RouteTotal ==
    \A s \in RouteInputs :
       LET route == _route_from_supervisor(s)
       IN  /\ route \in DeclaredEdges
           /\ IF "next_agent" \in DOMAIN s /\ s.next_agent \in Workers
              THEN route = s.next_agent
              ELSE route = "finish"

====
